---- MODULE Spec2Model ----
(***************************************************************************)
(* Bling sales/finance dashboard (bling_dashboard_streamlit.py): the OAuth *)
(* token calls with their 429 back-off, the cached fetches, and the        *)
(* financial fallback chain bank extracts -> borderos -> receber/pagar of  *)
(* one dashboard load.                                                     *)
(***************************************************************************)
EXTENDS Integers, Sequences, FiniteSets, TLC

VARIABLES
    \* ---- st.session_state
    ts_refresh,         \* session refresh token, 0 when None/empty
    ts_access,          \* session access token, 0 when None
    last_code_used,     \* st.session_state["_last_code_used"], 0 when None
    query_params,       \* st.query_params: the code and state of the URL
    exchanged,          \* the code exchanges sent to the token endpoint, in order
    fin_source_detail,  \* st.session_state["_fin_source_detail"]
    \* ---- the vendor's token endpoint
    lastIssued,         \* refresh token most recently issued to this session
    lastGrant,          \* the last refresh_token grant sent: token sent, token valid then
    \* ---- st.cache_data
    cache,              \* per cached function, the set of stored entries
    \* ---- one run of the dashboard block
    pc,                 \* position of the script in the dashboard block
    date_range,         \* (date_start, date_end) of the sidebar
    df_vendas,          \* order rows of the load
    df_mov,             \* ledger rows of the load
    origem_fin,         \* label of the financial source
    errors,             \* the load's errors list
    e_fin,              \* exception caught from fetch_bank_confirmed (e)
    e_bordero,          \* exception caught from fetch_bordero_confirmed
    \* ---- locals of the fetch in progress
    maybe_new_refresh,  \* refresh token returned by refresh_access_token, 0 when None
    cand,               \* index of the candidate about to be requested
    last_err,           \* last_err of the candidate loop
    rows,               \* rows of the candidate loop
    entradas_raw,       \* receivable rows of fetch_cashflow_fallback
    reqs,               \* data requests sent during the load, in order
    calls,              \* fetch functions the load has called, in order
    grants,             \* refresh grants the fetches of this load have sent
    loadNo,             \* which run of the script this is
    atualizar,          \* st.sidebar.button("Atualizar dados") of this run
    \* ---- one isolated token call (post_with_backoff and its callers)
    tokServer,          \* the token endpoint's answers, one per attempt
    tokCall,            \* the finished call: grant, POSTs, sleeps, outcome
    \* ---- one isolated pager invocation
    pgServer,           \* the pager called and what its endpoint holds
    pgCall,             \* the finished invocation: rows, pages requested, error
    \* ---- one isolated row normalisation
    amtRow,             \* the raw row the vendor sent and the family it is from
    amtOut,             \* the normalised amount ("valor")
    \* ---- one isolated frame construction
    rawRows,            \* the function and the raw rows its pager(s) returned
    frame,              \* the frame the function returns, or the error it raises
    \* ---- one isolated monthly summary (the DRE block of the dashboard)
    tmp,                \* tmp = df_mov.copy(): the ledger the block is given
    dre                 \* the summary table and the totals of the period

oauthVars   == <<last_code_used, query_params, exchanged>>
sessionVars == <<ts_refresh, ts_access, oauthVars, fin_source_detail>>
serverVars  == <<lastIssued, lastGrant>>
loadVars    == <<pc, date_range, df_vendas, df_mov, origem_fin, errors, e_fin, e_bordero>>
fetchVars   == <<maybe_new_refresh, cand, last_err, rows, entradas_raw, reqs>>
tokVars     == <<tokServer, tokCall>>
unitVars    == <<pgServer, pgCall, amtRow, amtOut, rawRows, frame, tmp, dre>>
runVars     == <<grants, loadNo, atualizar>>
vars == <<sessionVars, serverVars, cache, loadVars, fetchVars, calls, tokVars, unitVars,
          runVars>>

----------------------------------------------------------------------------
\* Program constants
TRIES == 3
WAIT == 3
NumBankCandidates == 5
NumBorderoCandidates == 7
NumRpTries == 2

\* Bounds of the model
MaxTok == 2
MaxRows == 5
MaxRange == 1

NoErr == [kind |-> "none"]

----------------------------------------------------------------------------
\* OAUTH HELPERS

\* A token-endpoint response: status, body text, and the JSON fields of a 200.
TokenResponse(status, body, access, refresh) ==
    [status |-> status, body |-> body, access_token |-> access, refresh_token |-> refresh]

\* r.status_code == 429 and i < tries - 1
ShouldRetryAlways(r, i) == r.status = 429
ShouldRetry(r, i) == r.status = 429 /\ i < TRIES - 1

\* time.sleep(wait * (i + 1))
SleepTimeFlat(i) == WAIT
SleepTime(i) == WAIT * (i + 1)

\* The loop of post_with_backoff from index i of range(tries) on: the response
\* returned, the number of POSTs sent and the sleeps taken, in order. The
\* return after the loop is reached when the last turn ends in continue.
RECURSIVE post_loop(_, _, _, _)
post_loop(server, i, posts, waits) ==
    LET r == server[i + 1] IN
    IF ShouldRetry(r, i)
        THEN IF i + 1 < TRIES
                 THEN post_loop(server, i + 1, posts + 1, Append(waits, SleepTime(i)))
                 ELSE [r |-> r, posts |-> posts + 1, waits |-> Append(waits, SleepTime(i))]
        ELSE [r |-> r, posts |-> posts + 1, waits |-> waits]

post_with_backoff(server) == post_loop(server, 0, 0, <<>>)

\* RuntimeError("Rate limit (429) ao renovar token. Tente novamente em alguns minutos.")
RateLimitRefreshAsFailure == [kind |-> "Falha ao renovar token"]
RateLimitRefresh == [kind |-> "Rate limit (429) ao renovar token"]
\* RuntimeError("Rate limit (429) no Bling. Aguarde alguns minutos e tente novamente.")
RateLimitExchange == [kind |-> "Rate limit (429) no Bling"]

\* RuntimeError(f"Falha ao renovar token: {r.status_code} - {r.text}")
RefreshFailedBare(r) == [kind |-> "Falha ao renovar token"]
RefreshFailed(r) ==
    [kind |-> "Falha ao renovar token", status |-> r.status, body |-> r.body]

ExchangeFailed(r) ==
    [kind |-> "Falha na troca do code", status |-> r.status, body |-> r.body]

\* refresh_access_token: (access_token, refresh_token or None), or the error raised
refresh_access_token(server) ==
    LET pb == post_with_backoff(server)
        r  == pb.r
    IN  IF r.status = 429
            THEN [ok |-> FALSE, err |-> RateLimitRefresh, access |-> 0, refresh |-> 0,
                  posts |-> pb.posts, waits |-> pb.waits, last |-> r]
        ELSE IF r.status # 200
            THEN [ok |-> FALSE, err |-> RefreshFailed(r), access |-> 0, refresh |-> 0,
                  posts |-> pb.posts, waits |-> pb.waits, last |-> r]
        ELSE [ok |-> TRUE, err |-> NoErr, access |-> r.access_token,
              refresh |-> r.refresh_token,
              posts |-> pb.posts, waits |-> pb.waits, last |-> r]

\* exchange_code_for_tokens: the token JSON, or the error raised
exchange_code_for_tokens(server) ==
    LET pb == post_with_backoff(server)
        r  == pb.r
    IN  IF r.status = 429
            THEN [ok |-> FALSE, err |-> RateLimitExchange, access |-> 0, refresh |-> 0,
                  posts |-> pb.posts, waits |-> pb.waits, last |-> r]
        ELSE IF r.status # 200
            THEN [ok |-> FALSE, err |-> ExchangeFailed(r), access |-> 0, refresh |-> 0,
                  posts |-> pb.posts, waits |-> pb.waits, last |-> r]
        ELSE [ok |-> TRUE, err |-> NoErr, access |-> r.access_token,
              refresh |-> r.refresh_token,
              posts |-> pb.posts, waits |-> pb.waits, last |-> r]

----------------------------------------------------------------------------
\* PAGINATED FETCHERS

PAGE_LIMIT == 100

\* A data endpoint as one request sequence sees it: n rows in all, served in
\* pages of PAGE_LIMIT, and the page (0: none) that answers non-200.
DataServer(n, failAt, status, body) ==
    [n |-> n, failAt |-> failAt, status |-> status, body |-> body]

Min(a, b) == IF a < b THEN a ELSE b

\* The rows the server holds for page `pagina`, tagged with the endpoint.
PageOf(url, srv, pagina) ==
    [j \in 1..(Min(pagina * PAGE_LIMIT, srv.n) - Min((pagina - 1) * PAGE_LIMIT, srv.n))
        |-> [url |-> url, i |-> (pagina - 1) * PAGE_LIMIT + j]]

\* RuntimeError(f"Erro ao listar pedidos p{params['pagina']}: {r.status_code} - {r.text}")
OrdersPageError(url, pagina, srv) ==
    [kind |-> "Erro ao listar pedidos", pagina |-> pagina,
     status |-> srv.status, body |-> srv.body]

\* RuntimeError(f"{url} -> {r.status_code} - {r.text}")
GenericPageErrorNoBody(url, pagina, srv) ==
    [kind |-> "endpoint", url |-> url.url, status |-> srv.status]
GenericPageError(url, pagina, srv) ==
    [kind |-> "endpoint", url |-> url.url, status |-> srv.status, body |-> srv.body]

PageError(fn, url, pagina, srv) ==
    IF fn = "orders" THEN OrdersPageError(url, pagina, srv)
                     ELSE GenericPageError(url, pagina, srv)

\* len(rows) < PAGE_LIMIT
ShortPageNever(page) == FALSE
ShortPageInclusive(page) == Len(page) <= PAGE_LIMIT
ShortPage(page) == Len(page) < PAGE_LIMIT

\* out.extend(rows)
ExtendFront(out, page) == page \o out
Extend(out, page) == out \o page

\* if r.status_code != 200: raise RuntimeError(...); `out` is dropped with the frame
PagerRaisesPartial(fn, url, srv, pagina, out) ==
    [ok |-> FALSE, rows |-> out, pages |-> pagina,
     err |-> PageError(fn, url, pagina, srv)]
PagerRaises(fn, url, srv, pagina, out) ==
    [ok |-> FALSE, rows |-> <<>>, pages |-> pagina,
     err |-> PageError(fn, url, pagina, srv)]

\* The while True loop shared by fetch_orders, _get_paginated_generic and
\* _get_paginated_rp, from page `pagina` on with `out` accumulated.
RECURSIVE pager_loop(_, _, _, _, _)
pager_loop(fn, url, srv, pagina, out) ==
    IF srv.failAt = pagina
        THEN PagerRaises(fn, url, srv, pagina, out)
    ELSE LET page == PageOf(url, srv, pagina) IN
         IF page = <<>>
             THEN [ok |-> TRUE, rows |-> out, pages |-> pagina, err |-> NoErr]
         ELSE IF ShortPage(page)
             THEN [ok |-> TRUE, rows |-> Extend(out, page), pages |-> pagina, err |-> NoErr]
         ELSE pager_loop(fn, url, srv, pagina + 1, Extend(out, page))

\* An endpoint with the date-parameter pair it is asked with.
Endpoint(f, k, url, p_ini) == [fam |-> f, cand |-> k, url |-> url, params |-> p_ini]

ORDERS_URL == Endpoint("orders", 1, "pedidos/vendas", "dataInicial")

fetch_orders_pages(srv) == pager_loop("orders", ORDERS_URL, srv, 1, <<>>)
_get_paginated_generic(url, srv) == pager_loop("generic", url, srv, 1, <<>>)
_get_paginated_rp(fin_url, srv) == pager_loop("rp", fin_url, srv, 1, <<>>)

----------------------------------------------------------------------------
\* THE VENDOR, as the dashboard sees it

\* What the token endpoint may answer to one attempt of a refresh grant; `new`
\* is the refresh token a rotating 200 would issue (0: it issues none).
LoadTokenResponses(new) ==
    { TokenResponse(200, "ok", 1, new),
      TokenResponse(200, "ok", 1, 0),
      TokenResponse(429, "too many requests", 0, 0),
      TokenResponse(400, "invalid_grant", 0, 0) }

NewToken == IF lastIssued < MaxTok THEN lastIssued + 1 ELSE 0

TokenServers == [1..TRIES -> LoadTokenResponses(NewToken)]

\* What a data endpoint may hold for one pager invocation: nothing or
\* MaxRows rows, or it answers 404.
RowCounts == {0, MaxRows}

DataServers ==
    { DataServer(n, 0, 200, "ok") : n \in RowCounts }
        \cup { DataServer(0, 1, 404, "not found") }

DateRanges == 1..MaxRange

----------------------------------------------------------------------------
\* CACHE (st.cache_data, keyed by the function and its arguments)

Fns == {"orders", "bank", "bord", "rp"}

CacheHit(fn) == { en \in cache[fn] : en.tok = ts_refresh /\ en.range = date_range }

CacheStore(fn, df, newr) ==
    [cache EXCEPT ![fn] =
        @ \cup {[tok |-> ts_refresh, range |-> date_range, df |-> df, newr |-> newr]}]

----------------------------------------------------------------------------
\* DASHBOARD

\* The script is above the dashboard block: the buttons are handled there.
AboveDashboard == pc = "idle"

\* if new_r: st.session_state["ts_refresh"] = new_r
StoreRefreshAlways(cur, new_r) == new_r
StoreRefresh(cur, new_r) == IF new_r # 0 THEN new_r ELSE cur

\* if rows: break
CandidateWinsNever(rs) == FALSE
CandidateWins(rs) == rs # <<>>

\* if rows == [] and last_err: raise
FamilyRaises(rs, err) == rs = <<>> /\ err # NoErr

NumCandidates(f) == IF f = "bank" THEN NumBankCandidates ELSE NumBorderoCandidates

Label(f) ==
    CASE f = "bank" -> "Caixas & Bancos (confirmados)"
      [] f = "bord" -> "Borderos (confirmados)"
      [] f = "rp"   -> "Receber/Pagar pagos (fallback)"

\* RuntimeError(f"Extratos ... nao disponiveis: {last_err}") and its siblings
Unavailable(what, err) == [kind |-> what, cause |-> err]

\* errors.append(f"Financeiro: {e}\nBorderos: {e_bordero}\nFallback: {e2}")
FinanceiroErrorTwo(e, eb, e2) ==
    [src |-> "Financeiro", fin |-> e, bord |-> NoErr, fallback |-> e2]
FinanceiroError(e, eb, e2) ==
    [src |-> "Financeiro", fin |-> e, bord |-> eb, fallback |-> e2]

\* The family that the except block of family f tries next.
NextFamilyPcSwapped(f) == IF f = "bank" THEN "rp" ELSE "bord"
NextFamilyPc(f) == IF f = "bank" THEN "bord" ELSE "rp"

\* The page requests of one pager invocation, in order.
PageRequests(url, pages) ==
    [p \in 1..pages |-> [fam |-> url.fam, url |-> url.url, cand |-> url.cand, pagina |-> p]]

\* The refresh grant of a fetch: what the vendor sees and remembers.
GrantSent(res) ==
    /\ lastGrant' = [sent |-> ts_refresh, latest |-> lastIssued]
    /\ lastIssued' = IF res.ok /\ res.refresh # 0 THEN res.refresh ELSE lastIssued

\* if not st.session_state["ts_refresh"]: ...; st.stop()
GateOpen(tok) == "orders"
Gate(tok) == IF tok = 0 THEN "stopped" ELSE "orders"

\* The URL carries no code.
NoQuery == [code |-> 0, state |-> "none"]

\* captured and state == "auth-ts" and code and code != _last_code_used: the
\* capture block at the top of the script exchanges the code and reruns.
CaptureApplies ==
    /\ query_params.code # 0
    /\ query_params.state = "auth-ts"
    /\ query_params.code # last_code_used

\* with tab_dash: the gate on ts_refresh, then the load starts
StartLoad ==
    /\ AboveDashboard
    /\ ~CaptureApplies
    /\ \E d \in DateRanges : date_range' = d
    /\ pc' = Gate(ts_refresh)
    /\ df_vendas' = <<>>
    /\ df_mov' = <<>>
    /\ origem_fin' = "Indisponivel"
    /\ errors' = <<>>
    /\ e_fin' = NoErr
    /\ e_bordero' = NoErr
    /\ maybe_new_refresh' = 0
    /\ cand' = 1
    /\ last_err' = NoErr
    /\ rows' = <<>>
    /\ entradas_raw' = <<>>
    /\ reqs' = <<>>
    /\ calls' = <<>>
    /\ grants' = 0
    /\ UNCHANGED <<sessionVars, serverVars, cache, tokVars, unitVars, loadNo, atualizar>>

\* fetch_orders served by the cache
OrdersCached ==
    /\ calls' = Append(calls, "orders")
    /\ pc = "orders"
    /\ \E en \in CacheHit("orders") :
        /\ df_vendas' = en.df
        /\ ts_refresh' = StoreRefresh(ts_refresh, en.newr)
    /\ pc' = "bank"
    /\ UNCHANGED <<ts_access, oauthVars, fin_source_detail, serverVars, cache, date_range, df_mov, origem_fin, errors,
                   e_fin, e_bordero, fetchVars, tokVars, unitVars, runVars>>

\* fetch_orders: the refresh that opens it
OrdersRefresh ==
    /\ calls' = Append(calls, "orders")
    /\ pc = "orders"
    /\ CacheHit("orders") = {}
    /\ \E server \in TokenServers :
        LET res == refresh_access_token(server) IN
        /\ GrantSent(res)
        /\ grants' = grants + 1
        /\ IF res.ok
              THEN /\ maybe_new_refresh' = res.refresh
                   /\ pc' = "orders_pages"
                   /\ UNCHANGED errors
              ELSE /\ errors' = Append(errors, [src |-> "Vendas", err |-> res.err])
                   /\ pc' = "bank"
                   /\ UNCHANGED maybe_new_refresh
    /\ UNCHANGED <<sessionVars, cache, date_range, df_vendas, df_mov, origem_fin,
                   e_fin, e_bordero, cand, last_err, rows, entradas_raw, reqs, tokVars, unitVars, loadNo, atualizar>>

\* fetch_orders: the page loop, the return, and the caller's use of the result
OrdersPages ==
    /\ UNCHANGED calls
    /\ pc = "orders_pages"
    /\ \E srv \in DataServers :
        LET out == fetch_orders_pages(srv) IN
        /\ reqs' = reqs \o PageRequests(ORDERS_URL, out.pages)
        /\ IF out.ok
              THEN /\ df_vendas' = out.rows
                   /\ cache' = CacheStore("orders", out.rows, maybe_new_refresh)
                   /\ ts_refresh' = StoreRefresh(ts_refresh, maybe_new_refresh)
                   /\ UNCHANGED errors
              ELSE /\ errors' = Append(errors, [src |-> "Vendas", err |-> out.err])
                   /\ UNCHANGED <<df_vendas, cache, ts_refresh>>
    /\ pc' = "bank"
    /\ maybe_new_refresh' = 0
    /\ UNCHANGED <<ts_access, oauthVars, fin_source_detail, serverVars, date_range, df_mov, origem_fin,
                   e_fin, e_bordero, cand, last_err, rows, entradas_raw, tokVars, unitVars, runVars>>

\* candidates of fetch_bank_confirmed
BankCandidates ==
    << Endpoint("bank", 1, "financeiro/extratos", "dataInicial"),
       Endpoint("bank", 2, "financeiro/extratos", "dataMovimentoInicial"),
       Endpoint("bank", 3, "caixas/extratos", "dataInicial"),
       Endpoint("bank", 4, "caixas-bancos/extratos", "dataInicial"),
       Endpoint("bank", 5, "contas/extratos", "dataInicial") >>

\* candidates of fetch_bordero_confirmed
BorderoCandidates ==
    << Endpoint("bord", 1, "financeiro/borderos", "dataInicial"),
       Endpoint("bord", 2, "financeiro/borderos", "dataCriacaoInicial"),
       Endpoint("bord", 3, "financeiro/borderos", "dataLiquidacaoInicial"),
       Endpoint("bord", 4, "financeiro/borderos", "dataBaixaInicial"),
       Endpoint("bord", 5, "caixas/borderos", "dataInicial"),
       Endpoint("bord", 6, "contas/borderos", "dataInicial"),
       Endpoint("bord", 7, "borderos", "dataInicial") >>

Candidates(f) == IF f = "bank" THEN BankCandidates ELSE BorderoCandidates

PcCands(f) == IF f = "bank" THEN "bank_cands" ELSE "bord_cands"
PcEnd(f) == IF f = "bank" THEN "bank_end" ELSE "bord_end"

\* The except block that catches family f's exception: the next family is
\* tried, or, after the last one, the financial error is recorded.
CatchForgets(f, err) ==
    /\ e_fin' = IF f = "bank" THEN err ELSE e_fin
    /\ e_bordero' = IF f = "bord" THEN err ELSE e_bordero
    /\ errors' = IF f = "rp" THEN << FinanceiroError(e_fin, e_bordero, err) >>
                             ELSE errors
    /\ pc' = IF f = "rp" THEN "done" ELSE NextFamilyPc(f)
Catch(f, err) ==
    /\ e_fin' = IF f = "bank" THEN err ELSE e_fin
    /\ e_bordero' = IF f = "bord" THEN err ELSE e_bordero
    /\ errors' = IF f = "rp" THEN Append(errors, FinanceiroError(e_fin, e_bordero, err))
                             ELSE errors
    /\ pc' = IF f = "rp" THEN "done" ELSE NextFamilyPc(f)

\* A fetch function is left (return or raise): its locals are gone.
LocalsGone ==
    /\ maybe_new_refresh' = 0
    /\ cand' = 1
    /\ last_err' = NoErr
    /\ rows' = <<>>
    /\ entradas_raw' = <<>>

\* The caller's use of a family's returned (df, new_r)
ReturnedKeepsLabel(f, df, new_r) ==
    /\ df_mov' = df
    /\ origem_fin' = origem_fin
    /\ ts_refresh' = StoreRefresh(ts_refresh, new_r)
    /\ pc' = "done"
Returned(f, df, new_r) ==
    /\ df_mov' = df
    /\ origem_fin' = Label(f)
    /\ ts_refresh' = StoreRefresh(ts_refresh, new_r)
    /\ pc' = "done"

\* fetch_bank_confirmed / fetch_bordero_confirmed served by the cache
FamilyCached(f) ==
    /\ calls' = Append(calls, f)
    /\ pc = f
    /\ \E en \in CacheHit(f) : Returned(f, en.df, en.newr)
    /\ UNCHANGED <<ts_access, oauthVars, fin_source_detail, serverVars, cache, date_range, df_vendas, errors,
                   e_fin, e_bordero, fetchVars, tokVars, unitVars, runVars>>

\* fetch_bank_confirmed / fetch_bordero_confirmed: the refresh that opens it
FamilyRefresh(f) ==
    /\ calls' = Append(calls, f)
    /\ pc = f
    /\ CacheHit(f) = {}
    /\ \E server \in TokenServers :
        LET res == refresh_access_token(server) IN
        /\ GrantSent(res)
        /\ grants' = grants + 1
        /\ IF res.ok
              THEN /\ maybe_new_refresh' = res.refresh
                   /\ cand' = 1
                   /\ last_err' = NoErr
                   /\ rows' = <<>>
                   /\ pc' = PcCands(f)
                   /\ UNCHANGED <<errors, e_fin, e_bordero>>
              ELSE /\ Catch(f, res.err)
                   /\ UNCHANGED <<maybe_new_refresh, cand, last_err, rows>>
    /\ UNCHANGED <<sessionVars, cache, date_range, df_vendas, df_mov, origem_fin,
                   entradas_raw, reqs, tokVars, unitVars, loadNo, atualizar>>

\* st.session_state.get("_fin_source_detail") of a session that has set none
NoDetail == [url |-> "none"]

\* f"{url} {p_ini},{p_fim} rows={len(rows)}"
Detail(url, rs) == [url |-> url.url, params |-> url.params, rows |-> Len(rs)]

\* The candidate loop that records its winning candidate in the session.
WritesDetail(f) == f = "bord"

\* One turn of the candidate loop: _get_paginated_generic on candidate `cand`,
\* whose endpoint answers as one of `servers`
FamilyCandidateFrom(f, servers) ==
    /\ UNCHANGED calls
    /\ pc = PcCands(f)
    /\ \E srv \in servers :
        LET url == Candidates(f)[cand]
            out == _get_paginated_generic(url, srv)
            brk == out.ok /\ CandidateWins(out.rows)
        IN
        /\ reqs' = reqs \o PageRequests(url, out.pages)
        /\ rows' = IF out.ok THEN out.rows ELSE <<>>
        /\ last_err' = IF out.ok THEN last_err ELSE out.err
        /\ cand' = IF brk THEN cand ELSE cand + 1
        /\ fin_source_detail' =
               IF brk /\ WritesDetail(f) THEN Detail(url, out.rows) ELSE fin_source_detail
        /\ pc' = IF brk \/ cand = NumCandidates(f) THEN PcEnd(f) ELSE pc
    /\ UNCHANGED <<ts_refresh, ts_access, oauthVars, serverVars, cache, date_range,
                   df_vendas, df_mov,
                   origem_fin, errors, e_fin, e_bordero, maybe_new_refresh,
                   entradas_raw, tokVars, unitVars, runVars>>

FamilyCandidate(f) == FamilyCandidateFrom(f, DataServers)

\* After the loop: raise, or build the frame, return it and use it
FamilyEnd(f) ==
    /\ UNCHANGED calls
    /\ pc = PcEnd(f)
    /\ IF FamilyRaises(rows, last_err)
          THEN /\ Catch(f, Unavailable(f, last_err))
               /\ UNCHANGED <<df_mov, origem_fin, ts_refresh, cache>>
          ELSE /\ Returned(f, rows, maybe_new_refresh)
               /\ cache' = CacheStore(f, rows, maybe_new_refresh)
               /\ UNCHANGED <<errors, e_fin, e_bordero>>
    /\ LocalsGone
    /\ UNCHANGED <<ts_access, oauthVars, fin_source_detail, serverVars, date_range, df_vendas, reqs, tokVars, unitVars, runVars>>

\* tries of fetch_cashflow_fallback, on RECEBER_URL and on PAGAR_URL
RpParams == << "dataPagamentoInicial", "dataBaixaInicial" >>
RECEBER_URL(k) == Endpoint("rp", k, "contas/receber", RpParams[k])
PAGAR_URL(k) == Endpoint("rp", k, "contas/pagar", RpParams[k])

\* if entradas_raw == [] and last_err: raise (and the same on saidas_raw)
SideRaisesNever(raw, err) == FALSE
SideRaises(raw, err) == raw = <<>> /\ err # NoErr

\* fetch_cashflow_fallback served by the cache
RpCached ==
    /\ calls' = Append(calls, "rp")
    /\ pc = "rp"
    /\ \E en \in CacheHit("rp") : Returned("rp", en.df, en.newr)
    /\ UNCHANGED <<ts_access, oauthVars, fin_source_detail, serverVars, cache, date_range, df_vendas, errors,
                   e_fin, e_bordero, fetchVars, tokVars, unitVars, runVars>>

\* fetch_cashflow_fallback: the refresh that opens it
RpRefresh ==
    /\ calls' = Append(calls, "rp")
    /\ pc = "rp"
    /\ CacheHit("rp") = {}
    /\ \E server \in TokenServers :
        LET res == refresh_access_token(server) IN
        /\ GrantSent(res)
        /\ grants' = grants + 1
        /\ IF res.ok
              THEN /\ maybe_new_refresh' = res.refresh
                   /\ cand' = 1
                   /\ last_err' = NoErr
                   /\ entradas_raw' = <<>>
                   /\ pc' = "rp_receber"
                   /\ UNCHANGED <<errors, e_fin, e_bordero>>
              ELSE /\ Catch("rp", res.err)
                   /\ UNCHANGED <<maybe_new_refresh, cand, last_err, entradas_raw>>
    /\ UNCHANGED <<sessionVars, cache, date_range, df_vendas, df_mov, origem_fin,
                   rows, reqs, tokVars, unitVars, loadNo, atualizar>>

\* One turn of the receivables loop: _get_paginated_rp(RECEBER_URL, ..., pair)
RpReceber ==
    /\ UNCHANGED calls
    /\ pc = "rp_receber"
    /\ \E srv \in DataServers :
        LET out == _get_paginated_rp(RECEBER_URL(cand), srv) IN
        /\ reqs' = reqs \o PageRequests(RECEBER_URL(cand), out.pages)
        /\ entradas_raw' = IF out.ok THEN out.rows ELSE <<>>
        /\ last_err' = IF out.ok THEN last_err ELSE out.err
        /\ cand' = IF out.ok THEN cand ELSE cand + 1
        /\ pc' = IF out.ok \/ cand = NumRpTries THEN "rp_receber_end" ELSE pc
    /\ UNCHANGED <<sessionVars, serverVars, cache, date_range, df_vendas, df_mov,
                   origem_fin, errors, e_fin, e_bordero, maybe_new_refresh, rows, tokVars, unitVars, runVars>>

\* After the receivables loop: raise, or go on to the payables loop
RpReceberEnd ==
    /\ UNCHANGED calls
    /\ pc = "rp_receber_end"
    /\ IF SideRaises(entradas_raw, last_err)
          THEN /\ Catch("rp", Unavailable("receber", last_err))
               /\ LocalsGone
          ELSE /\ cand' = 1
               /\ last_err' = NoErr
               /\ rows' = <<>>
               /\ pc' = "rp_pagar"
               /\ UNCHANGED <<errors, e_fin, e_bordero, maybe_new_refresh, entradas_raw>>
    /\ UNCHANGED <<sessionVars, serverVars, cache, date_range, df_vendas, df_mov,
                   origem_fin, reqs, tokVars, unitVars, runVars>>

\* One turn of the payables loop: _get_paginated_rp(PAGAR_URL, ..., pair)
RpPagar ==
    /\ UNCHANGED calls
    /\ pc = "rp_pagar"
    /\ \E srv \in DataServers :
        LET out == _get_paginated_rp(PAGAR_URL(cand), srv) IN
        /\ reqs' = reqs \o PageRequests(PAGAR_URL(cand), out.pages)
        /\ rows' = IF out.ok THEN out.rows ELSE <<>>
        /\ last_err' = IF out.ok THEN last_err ELSE out.err
        /\ cand' = IF out.ok THEN cand ELSE cand + 1
        /\ pc' = IF out.ok \/ cand = NumRpTries THEN "rp_end" ELSE pc
    /\ UNCHANGED <<sessionVars, serverVars, cache, date_range, df_vendas, df_mov,
                   origem_fin, errors, e_fin, e_bordero, maybe_new_refresh,
                   entradas_raw, tokVars, unitVars, runVars>>

\* df = pd.concat([entradas, saidas]); df.dropna(subset=["data"]): a frame
\* built from no rows has no columns, and dropna raises KeyError(['data']).
KeyErrorData == [kind |-> "KeyError", key |-> "data"]
DropnaRaises(entradas, saidas) == entradas = <<>> /\ saidas = <<>>

\* After the payables loop: raise, or concatenate, return and use the frame
RpEnd ==
    /\ UNCHANGED calls
    /\ pc = "rp_end"
    /\ IF SideRaises(rows, last_err)
          THEN /\ Catch("rp", Unavailable("pagar", last_err))
               /\ UNCHANGED <<df_mov, origem_fin, ts_refresh, cache>>
          ELSE IF DropnaRaises(entradas_raw, rows)
          THEN /\ Catch("rp", KeyErrorData)
               /\ UNCHANGED <<df_mov, origem_fin, ts_refresh, cache>>
          ELSE /\ Returned("rp", entradas_raw \o rows, maybe_new_refresh)
               /\ cache' = CacheStore("rp", entradas_raw \o rows, maybe_new_refresh)
               /\ UNCHANGED <<errors, e_fin, e_bordero>>
    /\ LocalsGone
    /\ UNCHANGED <<ts_access, oauthVars, fin_source_detail, serverVars, date_range, df_vendas, reqs, tokVars, unitVars, runVars>>

\* st.cache_data.clear()
ClearedOrdersOnly == [cache EXCEPT !["orders"] = {}]
Cleared == [fn \in Fns |-> {}]

\* if st.sidebar.button("Atualizar dados"): st.cache_data.clear()
AtualizarDados ==
    /\ UNCHANGED calls
    /\ AboveDashboard
    /\ atualizar' = TRUE
    /\ cache' = Cleared
    /\ UNCHANGED <<sessionVars, serverVars, loadVars, fetchVars, tokVars, unitVars,
                   grants, loadNo>>

\* ttl=300: an entry older than the window is dropped
CacheExpire ==
    /\ UNCHANGED calls
    /\ AboveDashboard
    /\ \E fn \in Fns : \E en \in cache[fn] : cache' = [cache EXCEPT ![fn] = @ \ {en}]
    /\ UNCHANGED <<sessionVars, serverVars, loadVars, fetchVars, tokVars, unitVars, runVars>>

\* if st.button("Renovar access_token agora")
RenovarAccessToken ==
    /\ UNCHANGED calls
    /\ AboveDashboard
    /\ ts_refresh # 0
    /\ \E server \in TokenServers :
        LET res == refresh_access_token(server) IN
        /\ GrantSent(res)
        /\ ts_access' = IF res.ok THEN res.access ELSE ts_access
        /\ ts_refresh' = IF res.ok THEN StoreRefresh(ts_refresh, res.refresh) ELSE ts_refresh
    /\ UNCHANGED <<oauthVars, fin_source_detail, cache, loadVars, fetchVars, tokVars, unitVars, runVars>>

NoTokenCall == [phase |-> "none"]

\* What an earlier run of this session may have left in the cache: under the
\* session's token and the first date range, the orders frame if fetch_orders
\* returned and the frame of the one family that returned, each from a fetch
\* to which the vendor issued no new refresh token.
CachedFrame(fn) ==
    CASE fn = "orders" -> PageOf(ORDERS_URL, DataServer(1, 0, 200, "ok"), 1)
      [] fn = "bank"   -> PageOf(BankCandidates[1], DataServer(1, 0, 200, "ok"), 1)
      [] fn = "bord"   -> PageOf(BorderoCandidates[1], DataServer(1, 0, 200, "ok"), 1)
      [] fn = "rp"     -> PageOf(RECEBER_URL(1), DataServer(1, 0, 200, "ok"), 1)

InitCaches(tok) ==
    IF tok = 0 THEN { [fn \in Fns |-> {}] }
    ELSE { [fn \in Fns |->
               IF fn \in kept
                   THEN {[tok |-> tok, range |-> 1, df |-> CachedFrame(fn), newr |-> 0]}
                   ELSE {}] :
           kept \in { k \in SUBSET Fns : Cardinality(k \ {"orders"}) <= 1 } }

BaseInit ==
    /\ ts_refresh \in {0, 1}
    /\ ts_access = 0
    /\ fin_source_detail = NoDetail
    /\ lastIssued = ts_refresh
    /\ lastGrant = [sent |-> 0, latest |-> 0]
    /\ cache \in InitCaches(ts_refresh)
    /\ pc = "idle"
    /\ date_range = 1
    /\ df_vendas = <<>>
    /\ df_mov = <<>>
    /\ origem_fin = "Indisponivel"
    /\ errors = <<>>
    /\ e_fin = NoErr
    /\ e_bordero = NoErr
    /\ maybe_new_refresh = 0
    /\ cand = 1
    /\ last_err = NoErr
    /\ rows = <<>>
    /\ entradas_raw = <<>>
    /\ reqs = <<>>
    /\ calls = <<>>
    /\ grants = 0
    /\ loadNo = 1
    /\ atualizar = FALSE

\* A session whose URL carries no code and that has exchanged none.
LoadInit ==
    /\ BaseInit
    /\ last_code_used = 0
    /\ query_params = NoQuery
    /\ exchanged = <<>>

\* No isolated pager invocation or row normalisation is under way.
NoUnit ==
    /\ pgServer = [fn |-> "none"]
    /\ pgCall = [phase |-> "none"]
    /\ amtRow = [fam |-> "none"]
    /\ amtOut = [phase |-> "none"]
    /\ rawRows = [fn |-> "none"]
    /\ frame = [phase |-> "none"]
    /\ tmp = <<>>
    /\ dre = [phase |-> "none"]

Init ==
    /\ LoadInit
    /\ tokServer = <<>>
    /\ tokCall = NoTokenCall
    /\ NoUnit

Next ==
    \/ StartLoad
    \/ OrdersCached
    \/ OrdersRefresh
    \/ OrdersPages
    \/ FamilyCached("bank")
    \/ FamilyRefresh("bank")
    \/ FamilyCandidate("bank")
    \/ FamilyEnd("bank")
    \/ FamilyCached("bord")
    \/ FamilyRefresh("bord")
    \/ FamilyCandidate("bord")
    \/ FamilyEnd("bord")
    \/ RpCached
    \/ RpRefresh
    \/ RpReceber
    \/ RpReceberEnd
    \/ RpPagar
    \/ RpEnd
    \/ AtualizarDados
    \/ CacheExpire
    \/ RenovarAccessToken

Spec == Init /\ [][Next]_vars

----------------------------------------------------------------------------
\* CLAIMS ABOUT ONE DASHBOARD LOAD (under Spec)

FamilyReqs(f) == SelectSeq(reqs, LAMBDA r : r.fam = f)
Invoked(fn) == \E i \in 1..Len(calls) : calls[i] = fn
FromFamily(f) == \A i \in 1..Len(df_mov) : df_mov[i].url.fam = f
FinErrors == SelectSeq(errors, LAMBDA x : x.src = "Financeiro")
TokenErrorKinds == {"Rate limit (429) ao renovar token", "Falha ao renovar token"}

\* C1 as claimed: when every bank-extract candidate was requested and none
\* returned rows (each answered non-200 or 200 with zero rows, in any mix),
\* the load has invoked fetch_bordero_confirmed; likewise from the borderos
\* to fetch_cashflow_fallback.
C1_EmptyOrErrorFallsThrough ==
    pc = "done" =>
        /\ (/\ Len(FamilyReqs("bank")) = NumBankCandidates
            /\ ~(origem_fin = Label("bank") /\ df_mov # <<>>))
           => Invoked("bord")
        /\ (/\ Len(FamilyReqs("bord")) = NumBorderoCandidates
            /\ ~(origem_fin = Label("bord") /\ df_mov # <<>>))
           => Invoked("rp")

\* C2 as claimed: every refresh_token grant sent to the token endpoint
\* carries the refresh token the vendor most recently issued to the session.
C2_GrantCarriesLatestToken == lastGrant.sent = lastGrant.latest

FamilyRank(f) ==
    CASE f = "orders" -> 0 [] f = "bank" -> 1 [] f = "bord" -> 2 [] f = "rp" -> 3

\* C4: the families are attempted in the fixed order bank extracts, borderos,
\* receber/pagar: the fetch functions called are a prefix of that order, no
\* request goes to a borderos endpoint before fetch_bank_confirmed has been
\* left, none to receber/pagar before fetch_bordero_confirmed has been left,
\* and the requests of the load are grouped by family in that order.
C4_FixedFamilyOrder ==
    /\ \A i \in 1..Len(calls) : calls[i] = <<"orders", "bank", "bord", "rp">>[i]
    /\ \A i, j \in 1..Len(reqs) :
            i < j => FamilyRank(reqs[i].fam) <= FamilyRank(reqs[j].fam)
    /\ FamilyReqs("bord") # <<>> =>
            /\ Invoked("bank")
            /\ pc \in {"bord_cands", "bord_end", "rp", "rp_receber", "rp_receber_end",
                        "rp_pagar", "rp_end", "done"}
    /\ FamilyReqs("rp") # <<>> =>
            /\ Invoked("bord")
            /\ pc \in {"rp_receber", "rp_receber_end", "rp_pagar", "rp_end", "done"}

C4_Witness ==
    /\ pc = "done"
    /\ FamilyReqs("bank") # <<>>
    /\ FamilyReqs("bord") # <<>>
    /\ FamilyReqs("rp") # <<>>

CaseBank == origem_fin = Label("bank") /\ FromFamily("bank")
CaseFallback == \E f \in {"bord", "rp"} : origem_fin = Label(f) /\ FromFamily(f)
CaseFailure == origem_fin = "Indisponivel" /\ df_mov = <<>> /\ FinErrors # <<>>

\* C5: after every load exactly one of these holds: the ledger rows all come
\* from the bank-extract family and origem_fin names it; they all come from
\* one fallback family and origem_fin names that family; or no family
\* returned, df_mov is empty, origem_fin is 'Indisponivel' and a financial
\* error is recorded. Rows of two families are never present together, and a
\* financial error is recorded in the third case only.
C5_OneSourceOrFailure ==
    pc = "done" =>
        /\ CaseBank \/ CaseFallback \/ CaseFailure
        /\ ~(CaseBank /\ CaseFallback)
        /\ ~(CaseBank /\ CaseFailure)
        /\ ~(CaseFallback /\ CaseFailure)
        /\ \A i, j \in 1..Len(df_mov) : df_mov[i].url.fam = df_mov[j].url.fam
        /\ FinErrors # <<>> => CaseFailure

C5_Witness ==
    /\ pc = "done"
    /\ origem_fin = Label("rp")
    /\ Len(df_mov) = 10
    /\ FinErrors = <<>>

\* C6: a financial error is in the load's errors only when the three families
\* have each been called and none returned; it is recorded once, and it holds
\* the exception of fetch_bank_confirmed, that of fetch_bordero_confirmed and
\* that of fetch_cashflow_fallback.
C6_ErrorOnlyAfterAllFamilies ==
    /\ Len(FinErrors) <= 1
    /\ FinErrors # <<>> =>
        LET x == FinErrors[1] IN
        /\ pc = "done"
        /\ Invoked("bank") /\ Invoked("bord") /\ Invoked("rp")
        /\ origem_fin = "Indisponivel" /\ df_mov = <<>>
        /\ x.fin = e_fin /\ x.bord = e_bordero
        /\ x.fin.kind \in TokenErrorKinds \cup {"bank"}
        /\ x.bord.kind \in TokenErrorKinds \cup {"bord"}
        /\ x.fallback.kind \in TokenErrorKinds \cup {"receber", "pagar", "KeyError"}

C6_Witness ==
    /\ pc = "done"
    /\ Len(FinErrors) = 1
    /\ FinErrors[1].fin.kind = "bank"
    /\ FinErrors[1].bord.kind = "bord"
    /\ FinErrors[1].fallback.kind = "pagar"

\* A step in which a fetch that refreshed returns to the dashboard block.
FetchReturns ==
    \/ pc = "orders_pages" /\ errors' = errors
    \/ pc \in {"bank_end", "bord_end", "rp_end"} /\ origem_fin' # "Indisponivel"

\* A step of the buttons above the dashboard, "Renovar access_token agora"
\* among them.
ButtonStep == pc = "idle" /\ pc' = "idle"

\* C7: when a fetch that performed a successful refresh returns to the
\* dashboard, the session's refresh token becomes, in that one step, the
\* token the response carried (the one the vendor issued last) if it carried
\* one, and keeps its value if the response carried none; the same holds of
\* the refresh of the "Renovar access_token agora" button.
C7_RefreshTokenStored ==
    [][/\ FetchReturns =>
              IF maybe_new_refresh # 0
                  THEN maybe_new_refresh = lastIssued /\ ts_refresh' = lastIssued
                  ELSE ts_refresh' = ts_refresh
       /\ ButtonStep =>
              IF lastIssued' # lastIssued
                  THEN ts_refresh' = lastIssued'
                  ELSE ts_refresh' = ts_refresh]_vars

C7_Witness ==
    /\ pc = "bank"
    /\ errors = <<>>
    /\ df_vendas # <<>>
    /\ lastGrant.sent = 1
    /\ lastIssued = 2
    /\ ts_refresh = 2

FinancePcs ==
    {"bank", "bank_cands", "bank_end", "bord", "bord_cands", "bord_end",
     "rp", "rp_receber", "rp_receber_end", "rp_pagar", "rp_end"}

SalesErrors == SelectSeq(errors, LAMBDA x : x.src = "Vendas")

C24_RefreshDiscardsCache ==
    atualizar =>
        /\ pc = "idle" => \A fn \in Fns : cache[fn] = {}
        /\ grants = Len(calls)
        /\ (pc = "done" /\ errors = <<>>) => reqs # <<>>

C24_Witness ==
    /\ atualizar
    /\ pc = "done"
    /\ calls = <<"orders", "bank">>
    /\ grants = 2
    /\ df_vendas # <<>>
    /\ df_mov # <<>>

\* C28: while the session holds no refresh token, the dashboard block stops
\* at its gate: no fetch function is called, no refresh grant is sent to the
\* token endpoint and no request to a data endpoint.
C28_NoTokenNoTraffic ==
    ts_refresh = 0 =>
        /\ pc \in {"idle", "stopped"}
        /\ calls = <<>>
        /\ grants = 0
        /\ reqs = <<>>
        /\ lastGrant = [sent |-> 0, latest |-> 0]

C28_Witness == ts_refresh = 0 /\ pc = "stopped"

\* C25 as claimed: in each of the three families, the two parameter pairs of
\* the receber and of the pagar fetch included, a candidate that answers
\* non-200 or 200 with zero rows does not win: when it is not the last of its
\* list, the next candidate in list order is requested.
C25_EmptyCandidateNeverWins ==
    [][/\ \A f \in {"bank", "bord"} :
              (pc = PcCands(f) /\ rows' = <<>> /\ cand < NumCandidates(f))
                  => (pc' = pc /\ cand' = cand + 1)
       /\ (pc = "rp_receber" /\ entradas_raw' = <<>> /\ cand < NumRpTries)
              => (pc' = pc /\ cand' = cand + 1)
       /\ (pc = "rp_pagar" /\ rows' = <<>> /\ cand < NumRpTries)
              => (pc' = pc /\ cand' = cand + 1)]_vars

\* The requests of the load to one endpoint of the receber/pagar family.
UrlReqs(url) == SelectSeq(reqs, LAMBDA r : r.url = url)

\* Every parameter pair of the side whose loop has just ended raised.
SideFailed == cand > NumRpTries

\* C27: fetch_cashflow_fallback returns only when the receber fetch and the
\* pagar fetch each completed without error on some parameter pair; when
\* every pair of one side raised, the function raises, the load records the
\* financial error, and the ledger stays empty with origem 'Indisponivel':
\* the rows the other side returned do not reach it.
C27_BothSidesOrNothing ==
    [][/\ (pc = "rp_receber_end" /\ pc' = "rp_pagar") => ~SideFailed
       /\ (pc = "rp_end" /\ origem_fin' = Label("rp")) => ~SideFailed
       /\ (pc \in {"rp_receber_end", "rp_end"} /\ SideFailed) =>
              /\ pc' = "done"
              /\ Len(errors') = Len(errors) + 1
              /\ errors'[Len(errors')].src = "Financeiro"
              /\ df_mov' = <<>>
              /\ origem_fin' = "Indisponivel"]_vars

C27_Witness ==
    /\ pc = "done"
    /\ Len(UrlReqs("contas/receber")) = 1
    /\ Len(UrlReqs("contas/pagar")) = NumRpTries
    /\ FinErrors # <<>>
    /\ FinErrors[1].fallback.kind = "pagar"
    /\ FinErrors[1].fallback.cause.status = 404
    /\ df_mov = <<>>
    /\ origem_fin = "Indisponivel"

----------------------------------------------------------------------------
\* ONE DASHBOARD LOAD AGAINST A VENDOR WITHOUT BANK EXTRACTS: every request
\* to a bank-extract candidate answers 404; everything else is as in Spec.

NotFoundServers == { DataServer(0, 1, 404, "not found") }

BankCandidateNotFound == FamilyCandidateFrom("bank", NotFoundServers)

ScenarioNext ==
    \/ StartLoad
    \/ OrdersCached
    \/ OrdersRefresh
    \/ OrdersPages
    \/ FamilyCached("bank")
    \/ FamilyRefresh("bank")
    \/ BankCandidateNotFound
    \/ FamilyEnd("bank")
    \/ FamilyCached("bord")
    \/ FamilyRefresh("bord")
    \/ FamilyCandidate("bord")
    \/ FamilyEnd("bord")
    \/ RpCached
    \/ RpRefresh
    \/ RpReceber
    \/ RpReceberEnd
    \/ RpPagar
    \/ RpEnd
    \/ AtualizarDados
    \/ CacheExpire
    \/ RenovarAccessToken

SpecScenario == Init /\ [][ScenarioNext]_vars

\* C17 as claimed: when every bank-extract candidate was asked and answered
\* 404 and the receber and pagar endpoints, each answering 200 to the last
\* request sent to it, returned 5 paid rows in total, the load ends with
\* exactly those 5 rows as its ledger and with the label of the
\* receber/pagar fallback.
C17_FallbackRowsAndLabel ==
    [][(/\ pc = "rp_end"
        /\ Len(FamilyReqs("bank")) = NumBankCandidates
        /\ cand <= NumRpTries
        /\ Len(entradas_raw) + Len(rows) = 5)
       => /\ pc' = "done"
          /\ df_mov' = entradas_raw \o rows
          /\ Len(df_mov') = 5
          /\ origem_fin' = Label("rp")]_vars

----------------------------------------------------------------------------
\* A SECOND LOAD WITHIN THE CACHE WINDOW: after a load in which fetch_orders
\* and one financial family returned, the script runs again with the same
\* date range, no button pressed and no cache entry expired.

MaxLoads == 2

\* The load recorded no error and a financial family returned.
LoadSucceeded == pc = "done" /\ errors = <<>> /\ origem_fin # "Indisponivel"

\* Streamlit reruns the script: the locals start afresh, session and cache stay.
Reload ==
    /\ LoadSucceeded
    /\ loadNo < MaxLoads
    /\ loadNo' = loadNo + 1
    /\ atualizar' = FALSE
    /\ grants' = 0
    /\ pc' = "orders"
    /\ df_vendas' = <<>>
    /\ df_mov' = <<>>
    /\ origem_fin' = "Indisponivel"
    /\ errors' = <<>>
    /\ e_fin' = NoErr
    /\ e_bordero' = NoErr
    /\ reqs' = <<>>
    /\ calls' = <<>>
    /\ UNCHANGED <<sessionVars, serverVars, cache, date_range, maybe_new_refresh, cand,
                   last_err, rows, entradas_raw, tokVars, unitVars>>

ReloadNext == Next \/ Reload

SpecReload == Init /\ [][ReloadNext]_vars

\* C18 as claimed: the second load sends no refresh grant to the token
\* endpoint and no request to a data endpoint: fetch_orders and the financial
\* family are served from the cache.
C18_SecondLoadFromCache == loadNo = 2 => (grants = 0 /\ reqs = <<>>)

\* if errors: ... detail = st.session_state.get("_fin_source_detail");
\* if detail: st.info(f"Fonte financeira utilizada: {detail}")
FonteFinanceiraShown == pc = "done" /\ errors # <<>> /\ fin_source_detail # NoDetail

\* The ledger of the load is the rows of the candidate the detail names.
DetailNamesLedger ==
    /\ df_mov # <<>>
    /\ Len(df_mov) = fin_source_detail.rows
    /\ \A i \in 1..Len(df_mov) :
           /\ df_mov[i].url.url = fin_source_detail.url
           /\ df_mov[i].url.params = fin_source_detail.params

\* C31: whenever a load displays "Fonte financeira utilizada", the endpoint,
\* the parameter pair and the row count it names are those of the candidate
\* that produced the ledger rows of that same load.
C31_DetailNamesLedgerSource == FonteFinanceiraShown => DetailNamesLedger

\* The first load of a session that displays the detail displays that of
\* the bordero candidate which produced its ledger.
FirstLoadDetailNamesLedger == (loadNo = 1 /\ FonteFinanceiraShown) => DetailNamesLedger

----------------------------------------------------------------------------
\* ONE TOKEN CALL, against every answer sequence of the token endpoint

TokenResponses ==
    { TokenResponse(200, "ok", 1, 2),
      TokenResponse(200, "ok", 1, 0),
      TokenResponse(429, "too many requests", 0, 0),
      TokenResponse(400, "invalid_grant", 0, 0),
      TokenResponse(500, "server error", 0, 0) }

Finished(grant, res) ==
    [phase |-> "done", grant |-> grant, ok |-> res.ok, err |-> res.err,
     access |-> res.access, refresh |-> res.refresh,
     posts |-> res.posts, waits |-> res.waits]

\* refresh_access_token(refresh_token) against tokServer
TokRefresh ==
    /\ UNCHANGED calls
    /\ tokCall = NoTokenCall
    /\ tokCall' = Finished("refresh_token", refresh_access_token(tokServer))
    /\ UNCHANGED <<sessionVars, serverVars, cache, loadVars, fetchVars, tokServer, unitVars, runVars>>

\* exchange_code_for_tokens(code) against tokServer
TokExchange ==
    /\ UNCHANGED calls
    /\ tokCall = NoTokenCall
    /\ tokCall' = Finished("authorization_code", exchange_code_for_tokens(tokServer))
    /\ UNCHANGED <<sessionVars, serverVars, cache, loadVars, fetchVars, tokServer, unitVars, runVars>>

TokenInit ==
    /\ LoadInit
    /\ ts_refresh = 1
    /\ cache = [fn \in Fns |-> {}]
    /\ tokServer \in [1..TRIES -> TokenResponses]
    /\ tokCall = NoTokenCall
    /\ NoUnit

TokenNext == TokRefresh \/ TokExchange

SpecToken == TokenInit /\ [][TokenNext]_vars

----------------------------------------------------------------------------
\* CLAIMS ABOUT THE TOKEN CALLS (under SpecToken)

TokDone == tokCall.phase = "done"

\* The number of leading 429 answers of the endpoint.
Leading429 ==
    CHOOSE k \in 0..Len(tokServer) :
        /\ \A j \in 1..k : tokServer[j].status = 429
        /\ k = Len(tokServer) \/ tokServer[k + 1].status # 429

\* C8: against an endpoint answering 429 to the first k attempts (k in 0..2)
\* and 200 to attempt k+1, refresh_access_token succeeds after exactly k+1
\* POSTs, having slept 3*1, ..., 3*k (strictly increasing) between them; and
\* whatever the answers, a token call sends at most 3 POSTs and sleeps only
\* between two POSTs, never after the last.
C8_BackoffSchedule ==
    TokDone =>
        /\ tokCall.posts \in 1..3
        /\ Len(tokCall.waits) = tokCall.posts - 1
        /\ LET k == Leading429 IN
           (/\ tokCall.grant = "refresh_token"
            /\ k <= 2
            /\ tokServer[k + 1].status = 200)
           => /\ tokCall.ok
              /\ tokCall.posts = k + 1
              /\ tokCall.waits = [j \in 1..k |-> 3 * j]
              /\ \A j \in 1..(k - 1) : tokCall.waits[j] < tokCall.waits[j + 1]

C8_Witness ==
    /\ TokDone
    /\ tokCall.grant = "refresh_token"
    /\ Leading429 = 2
    /\ tokServer[3].status = 200
    /\ tokCall.ok
    /\ tokCall.posts = 3
    /\ tokCall.waits = <<3, 6>>

\* C9 as claimed: when all 3 attempts of a refresh answer 429, the call fails
\* with a rate-limit error that carries the number of attempts made.
C9_CarriesAttemptCount ==
    (TokDone /\ tokCall.grant = "refresh_token" /\ Leading429 = 3)
        => /\ ~tokCall.ok
           /\ "attempts" \in DOMAIN tokCall.err
           /\ tokCall.err.attempts = tokCall.posts

\* C9 as amended: when all 3 attempts of a refresh answer 429, the call fails
\* after exactly 3 POSTs and sleeps of 3 and 6 with the fixed rate-limit
\* message, which carries no
\* attempt count, status or body; and the refresh fails with that message in
\* no other case, so it tells a rate limit from every other failure.
C9_RateLimitError ==
    (TokDone /\ tokCall.grant = "refresh_token")
        => /\ (Leading429 = 3) =>
                /\ ~tokCall.ok
                /\ tokCall.posts = 3
                /\ tokCall.waits = <<3, 6>>
                /\ tokCall.err = [kind |-> "Rate limit (429) ao renovar token"]
           /\ (Leading429 < 3 /\ ~tokCall.ok) =>
                tokCall.err.kind # "Rate limit (429) ao renovar token"

C9_Witness ==
    /\ TokDone
    /\ tokCall.grant = "refresh_token"
    /\ Leading429 = 3
    /\ ~tokCall.ok
    /\ tokCall.posts = 3
    /\ DOMAIN tokCall.err = {"kind"}

\* C10: when an attempt of a token call (refresh or code exchange) receives a
\* status that is neither 200 nor 429, that attempt is the last POST, no sleep
\* follows it, and the call fails with an error carrying that response's
\* status code and body.
C10_OtherStatusFailsAtOnce ==
    TokDone =>
        LET k == Leading429 IN
        (k < 3 /\ tokServer[k + 1].status # 200)
        => /\ ~tokCall.ok
           /\ tokCall.posts = k + 1
           /\ Len(tokCall.waits) = k
           /\ "status" \in DOMAIN tokCall.err
           /\ "body" \in DOMAIN tokCall.err
           /\ tokCall.err.status = tokServer[k + 1].status
           /\ tokCall.err.body = tokServer[k + 1].body

C10_Witness ==
    /\ TokDone
    /\ Leading429 = 1
    /\ tokServer[2].status = 500
    /\ tokServer[3].status = 200
    /\ ~tokCall.ok
    /\ tokCall.posts = 2
    /\ tokCall.err.status = 500
    /\ tokCall.err.body = "server error"

----------------------------------------------------------------------------
\* ONE PAGER INVOCATION, against every endpoint content and failing page

MaxPagerRows == 300
MaxFailPage == 4

PagerFns == {"orders", "generic", "rp"}

\* The endpoint each pager is called with.
PagerUrl(fn) ==
    CASE fn = "orders"  -> ORDERS_URL
      [] fn = "generic" -> BankCandidates[1]
      [] fn = "rp"      -> RECEBER_URL(1)

\* What the endpoint may hold and which page, if any, answers non-200.
PagerServers ==
    { DataServer(n, 0, 200, "ok") : n \in 0..MaxPagerRows }
        \cup { DataServer(n, f, 404, "not found") :
                 n \in 0..MaxPagerRows, f \in 1..MaxFailPage }
        \cup { DataServer(n, f, 500, "server error") :
                 n \in 0..MaxPagerRows, f \in 1..MaxFailPage }

PagerResult(out) ==
    [phase |-> "done", ok |-> out.ok, rows |-> out.rows,
     pages |-> out.pages, err |-> out.err]

\* The pager fn runs against pgServer.srv
PagerRun(fn, out) ==
    /\ pgServer.fn = fn
    /\ pgCall.phase = "none"
    /\ pgCall' = PagerResult(out)
    /\ UNCHANGED <<sessionVars, serverVars, cache, loadVars, fetchVars, calls,
                   tokVars, pgServer, amtRow, amtOut, rawRows, frame, tmp, dre, runVars>>

OrdersPagerRun == PagerRun("orders", fetch_orders_pages(pgServer.srv))
GenericPagerRun == PagerRun("generic", _get_paginated_generic(PagerUrl("generic"), pgServer.srv))
RpPagerRun == PagerRun("rp", _get_paginated_rp(PagerUrl("rp"), pgServer.srv))

PagerInit ==
    /\ LoadInit
    /\ ts_refresh = 1
    /\ cache = [fn \in Fns |-> {}]
    /\ tokServer = <<>>
    /\ tokCall = NoTokenCall
    /\ pgServer \in [fn : PagerFns, srv : PagerServers]
    /\ pgCall = [phase |-> "none"]
    /\ amtRow = [fam |-> "none"]
    /\ amtOut = [phase |-> "none"]
    /\ rawRows = [fn |-> "none"]
    /\ frame = [phase |-> "none"]
    /\ tmp = <<>>
    /\ dre = [phase |-> "none"]

PagerNext == OrdersPagerRun \/ GenericPagerRun \/ RpPagerRun

SpecPager == PagerInit /\ [][PagerNext]_vars

----------------------------------------------------------------------------
\* CLAIMS ABOUT THE PAGERS (under SpecPager)

PgDone == pgCall.phase = "done"

\* The row sequence the endpoint holds, in the order it serves it.
ServerRows == [i \in 1..pgServer.srv.n |-> [url |-> PagerUrl(pgServer.fn), i |-> i]]

\* The page at which the pager meets a page that is not full.
LastPage == (pgServer.srv.n \div 100) + 1

\* No page that the pager asks for answers non-200.
Served == pgServer.srv.failAt = 0 \/ pgServer.srv.failAt > LastPage

PageLen(p) == Len(PageOf(PagerUrl(pgServer.fn), pgServer.srv, p))

\* C11: against an endpoint that serves a fixed row sequence in pages of 100
\* and fails no requested page, each pager returns exactly that sequence: the
\* pages 1, 2, ... up to the first page that is not full are requested once
\* each, and the result is their concatenation in page order, with no row
\* duplicated, reordered or dropped.
C11_PagesConcatenated ==
    (PgDone /\ Served) =>
        /\ pgCall.ok
        /\ pgCall.pages = LastPage
        /\ pgCall.rows = ServerRows
        /\ Len(pgCall.rows) = pgServer.srv.n

C11_Witness ==
    /\ PgDone
    /\ pgServer.fn = "rp"
    /\ pgServer.srv.n = 250
    /\ pgCall.ok
    /\ pgCall.pages = 3
    /\ pgCall.rows[101].i = 101
    /\ pgCall.rows[250].i = 250

\* C12: a pager's last request is to the first page that is empty or has
\* fewer than 100 rows, or to a page that answered non-200; every page
\* requested before it had exactly 100 rows. Against pages of 100, 100 and 37
\* rows it returns exactly 237 rows after exactly 3 requests.
C12_StopsAtShortPage ==
    PgDone =>
        /\ \A p \in 1..(pgCall.pages - 1) : PageLen(p) = 100
        /\ pgCall.ok => PageLen(pgCall.pages) < 100
        /\ (Served /\ pgServer.srv.n = 237) =>
               /\ pgCall.ok
               /\ pgCall.pages = 3
               /\ Len(pgCall.rows) = 237

C12_Witness ==
    /\ PgDone
    /\ pgServer.fn = "orders"
    /\ pgServer.srv.n = 237
    /\ pgServer.srv.failAt = 0
    /\ PageLen(1) = 100 /\ PageLen(2) = 100 /\ PageLen(3) = 37
    /\ pgCall.pages = 3
    /\ Len(pgCall.rows) = 237

\* C13: when the endpoint holds m full pages (m >= 1) and nothing more, a
\* pager sends exactly m+1 requests, the last answered by an empty page, and
\* returns all m*100 rows.
C13_ExactMultiple ==
    (PgDone /\ Served /\ pgServer.srv.n >= 100 /\ pgServer.srv.n % 100 = 0) =>
        LET m == pgServer.srv.n \div 100 IN
        /\ pgCall.ok
        /\ pgCall.pages = m + 1
        /\ PageLen(m + 1) = 0
        /\ Len(pgCall.rows) = m * 100
        /\ pgCall.rows = ServerRows

C13_Witness ==
    /\ PgDone
    /\ pgServer.fn = "generic"
    /\ pgServer.srv.n = 200
    /\ pgServer.srv.failAt = 0
    /\ pgCall.pages = 3
    /\ Len(pgCall.rows) = 200

\* C14: when a requested page answers non-200, that request is the pager's
\* last and the pager hands its caller no rows: the rows accumulated from the
\* earlier pages are not in its result.
C14_NoPartialRows ==
    (PgDone /\ ~Served) =>
        /\ ~pgCall.ok
        /\ pgCall.pages = pgServer.srv.failAt
        /\ pgCall.rows = <<>>

C14_Witness ==
    /\ PgDone
    /\ pgServer.fn = "generic"
    /\ pgServer.srv.n = 250
    /\ pgServer.srv.failAt = 3
    /\ ~pgCall.ok
    /\ pgCall.pages = 3
    /\ pgCall.rows = <<>>

----------------------------------------------------------------------------
\* ONE PAGER INVOCATION, TURN BY TURN, against an endpoint that pages its
\* rows or that ignores the page parameter and answers every request with
\* its first page

\* pagina and the row count are kept up to MaxStepPages pages; there they
\* stand for themselves and for every larger value, and the loop goes on
\* turning: sent is the number of requests sent so far, modulo 2.
MaxStepPages == 5

\* params["pagina"] += 1
NextPage(pagina) == pagina + 1

\* r.json() of the request for page `pagina`
Answer(url, sv, pagina) == PageOf(url, sv.srv, IF sv.repeats THEN 1 ELSE pagina)

Running(pagina, got, sent) ==
    [phase |-> "running", pagina |-> pagina, got |-> got, sent |-> sent % 2]
Stopped(ok, pagina, got, err) ==
    [phase |-> "done", ok |-> ok, pages |-> pagina, got |-> got, err |-> err]

\* One turn of the while True loop of a pager
PagerTurn ==
    /\ pgCall.phase = "running"
    /\ LET fn   == pgServer.fn
           url  == PagerUrl(fn)
           srv  == pgServer.srv
           p    == pgCall.pagina
           page == Answer(url, pgServer, p)
       IN  pgCall' =
               IF srv.failAt = p
                   THEN Stopped(FALSE, p, 0, PageError(fn, url, p, srv))
               ELSE IF page = <<>>
                   THEN Stopped(TRUE, p, pgCall.got, NoErr)
               ELSE IF ShortPage(page)
                   THEN Stopped(TRUE, p, pgCall.got + Len(page), NoErr)
               ELSE Running(Min(NextPage(p), MaxStepPages),
                            Min(pgCall.got + Len(page), MaxStepPages * PAGE_LIMIT),
                            pgCall.sent + 1)
    /\ UNCHANGED <<sessionVars, serverVars, cache, loadVars, fetchVars, calls,
                   tokVars, pgServer, amtRow, amtOut, rawRows, frame, tmp, dre, runVars>>

PagingInit ==
    /\ LoadInit
    /\ ts_refresh = 1
    /\ cache = [fn \in Fns |-> {}]
    /\ tokServer = <<>>
    /\ tokCall = NoTokenCall
    /\ pgServer \in [fn : PagerFns, srv : PagerServers, repeats : BOOLEAN]
    /\ pgCall = Running(1, 0, 0)
    /\ amtRow = [fam |-> "none"]
    /\ amtOut = [phase |-> "none"]
    /\ rawRows = [fn |-> "none"]
    /\ frame = [phase |-> "none"]
    /\ tmp = <<>>
    /\ dre = [phase |-> "none"]

PagingNext == PagerTurn

\* The loop takes its next turn as long as it has not stopped.
SpecPaging == PagingInit /\ [][PagingNext]_vars /\ WF_vars(PagingNext)

----------------------------------------------------------------------------
\* CLAIMS ABOUT THE PAGER LOOP (under SpecPaging)

TurnDone == pgCall.phase = "done"

\* The endpoint answers every request with a full page.
Endless ==
    /\ pgServer.repeats
    /\ pgServer.srv.n >= PAGE_LIMIT
    /\ pgServer.srv.failAt = 0

\* C26: every pager invocation terminates after finitely many requests, for
\* every sequence of server responses.
C26_AlwaysTerminates == <>TurnDone

\* What the loop does guarantee: an invocation terminates unless the
\* endpoint answers every request with a full page, and then it never
\* stops; against an endpoint that holds N rows, pages them and fails no
\* requested page, it sends exactly floor(N / PAGE_LIMIT) + 1 requests and
\* returns the N rows.
TerminatesUnlessEndless ==
    /\ (~Endless) ~> TurnDone
    /\ [](Endless => ~TurnDone)
    /\ []((TurnDone /\ ~pgServer.repeats /\ Served) =>
              /\ pgCall.ok
              /\ pgCall.pages = (pgServer.srv.n \div PAGE_LIMIT) + 1
              /\ pgCall.got = pgServer.srv.n)

PagedRunDone ==
    /\ TurnDone
    /\ ~pgServer.repeats
    /\ pgServer.srv.n = 250
    /\ pgServer.srv.failAt = 0
    /\ pgCall.pages = 3
    /\ pgCall.got = 250

----------------------------------------------------------------------------
\* ROW NORMALISATION: the signed amount ("valor") of one raw row

MaxAmt == 2

\* JSON values of a raw row's field: absent or null, a number, a numeric
\* string, a string that is no number.
None == [t |-> "none"]
Num(n) == [t |-> "num", v |-> n]
NumText(n) == [t |-> "str", v |-> n]
Junk == [t |-> "junk"]
NaN == [t |-> "nan"]

\* Strings are sequences of characters.
NoText == [t |-> "none"]
Text(chars) == [t |-> "text", s |-> chars]

\* Python truthiness of a field value
Truthy(x) ==
    CASE x.t = "none" -> FALSE
      [] x.t = "num"  -> x.v # 0
      [] x.t = "str"  -> TRUE
      [] x.t = "junk" -> TRUE
      [] x.t = "nan"  -> TRUE
      [] x.t = "text" -> x.s # <<>>
      [] x.t = "date" -> TRUE

\* a or b
Or(a, b) == IF Truthy(a) THEN a ELSE b

\* pd.to_numeric(x, errors="coerce")
to_numeric(x) ==
    CASE x.t = "num"  -> Num(x.v)
      [] x.t = "str"  -> Num(x.v)
      [] x.t = "junk" -> NaN
      [] x.t = "none" -> NaN
      [] x.t = "nan"  -> NaN

\* float(pd.to_numeric(x, errors="coerce") or 0)
FloatOrZero(x) == Or(to_numeric(x), Num(0))

Sub(a, b) == IF a = NaN \/ b = NaN THEN NaN ELSE Num(a.v - b.v)
Neg(a) == IF a = NaN THEN NaN ELSE Num(0 - a.v)
Abs(a) == IF a = NaN THEN NaN ELSE Num(IF a.v < 0 THEN 0 - a.v ELSE a.v)

LowerCase ==
    << "a", "b", "c", "d", "e", "f", "g", "h", "i", "j", "k", "l", "m",
       "n", "o", "p", "q", "r", "s", "t", "u", "v", "w", "x", "y", "z" >>
UpperCase ==
    << "A", "B", "C", "D", "E", "F", "G", "H", "I", "J", "K", "L", "M",
       "N", "O", "P", "Q", "R", "S", "T", "U", "V", "W", "X", "Y", "Z" >>

\* str.upper(), character by character
UpperChar(c) ==
    IF \E k \in 1..Len(LowerCase) : LowerCase[k] = c
        THEN UpperCase[CHOOSE k \in 1..Len(LowerCase) : LowerCase[k] = c]
        ELSE c
Upper(chars) == [k \in 1..Len(chars) |-> UpperChar(chars[k])]

\* str.startswith(c) and `sub in str`
StartsWith(chars, c) == Len(chars) >= 1 /\ chars[1] = c
Contains(chars, sub) ==
    \E k \in 1..(Len(chars) - Len(sub) + 1) : SubSeq(chars, k, k + Len(sub) - 1) = sub

\* (g(d, "tipo") or g(d, "natureza") or "").upper()
TipoOf(d) == Upper(Or(Or(d.tipo, d.natureza), Text(<<>>)).s)

IsDebitMarker(tipo) == StartsWith(tipo, "D") \/ Contains(tipo, <<"S", "A", "I", "D">>)
IsCreditMarker(tipo) == StartsWith(tipo, "C") \/ Contains(tipo, <<"E", "N", "T", "R">>)

\* fetch_bank_confirmed.pick_amount
pick_amount(d) ==
    LET credito == Or(Or(d.valorCredito, d.credito), Num(0))
        debito  == Or(Or(d.valorDebito, d.debito), Num(0))
    IN
    IF Truthy(credito) \/ Truthy(debito)
        THEN Sub(FloatOrZero(credito), FloatOrZero(debito))
    ELSE LET valor == Or(Or(d.valorLancamento, d.valorAbsoluto), d.valor) IN
         IF valor # None
             THEN LET v == FloatOrZero(valor)
                      tipo == TipoOf(d)
                  IN
                  IF IsDebitMarker(tipo) THEN Neg(Abs(v))
                  ELSE IF IsCreditMarker(tipo) THEN Abs(v)
                  ELSE v
             ELSE Num(0)

\* (g(d, "tipo") or g(d, "natureza") or g(d, "operacao") or "").upper()
BorderoTipoOf(d) == Upper(Or(Or(Or(d.tipo, d.natureza), d.operacao), Text(<<>>)).s)

\* "RECEB" in tipo or "ENTR" in tipo or tipo.startswith("C")
IsRecebimento(tipo) ==
    \/ Contains(tipo, <<"R", "E", "C", "E", "B">>)
    \/ Contains(tipo, <<"E", "N", "T", "R">>)
    \/ StartsWith(tipo, "C")

\* "PAG" in tipo or "SAID" in tipo or tipo.startswith("D")
IsPagamento(tipo) ==
    \/ Contains(tipo, <<"P", "A", "G">>)
    \/ Contains(tipo, <<"S", "A", "I", "D">>)
    \/ StartsWith(tipo, "D")

\* fetch_bordero_confirmed.pick_amount
pick_amount_bordero(d) ==
    LET valor == Or(Or(d.valorLiquido, d.valorTotal), d.valor)
        v == FloatOrZero(valor)
        tipo == BorderoTipoOf(d)
    IN
    IF IsRecebimento(tipo) THEN Abs(v)
    ELSE IF IsPagamento(tipo) THEN Neg(Abs(v))
    ELSE v

\* fetch_cashflow_fallback.pick_value
pick_value(d) == Or(d.valorPago, d.valor)

\* "valor" of a row of entradas and of a row of saidas
entrada_valor(d) == to_numeric(pick_value(d))
saida_valor(d) == Neg(to_numeric(pick_value(d)))

\* Field values the vendor may send
AmtVals == {None, Num(0), Num(MaxAmt), Num(0 - MaxAmt), NumText(MaxAmt), Junk}
AltVals == {None, Num(1)}

TipoVals ==
    { NoText, Text(<<>>),
      Text(<<"D">>), Text(<<"c">>),
      Text(<<"d", "e", "b", "i", "t", "o">>),
      Text(<<"C", "r", "e", "d", "i", "t", "o">>),
      Text(<<"s", "a", "i", "d", "a">>),
      Text(<<"E", "n", "t", "r", "a", "d", "a">>),
      Text(<<"t", "a", "r", "i", "f", "a">>) }
NaturezaVals == { NoText, Text(<<"d">>) }

BankRows ==
    [valorCredito : AmtVals, credito : AltVals,
     valorDebito : AmtVals, debito : AltVals,
     valorLancamento : AltVals, valorAbsoluto : AltVals, valor : AmtVals,
     tipo : TipoVals, natureza : NaturezaVals]

OperacaoVals ==
    { NoText,
      Text(<<"p", "a", "g", "a", "m", "e", "n", "t", "o">>),
      Text(<<"R", "e", "c", "e", "b", "i", "m", "e", "n", "t", "o">>) }

BorderoRows ==
    [valorLiquido : AmtVals, valorTotal : AltVals, valor : AmtVals,
     tipo : TipoVals, natureza : NaturezaVals, operacao : OperacaoVals]

RpRows == [valorPago : AmtVals, valor : AmtVals]

AmountDone(v) == [phase |-> "done", valor |-> v]

\* One row of the frame a function builds from its raw rows
NormaliseRow(fam, v) ==
    /\ amtRow.fam = fam
    /\ amtOut.phase = "none"
    /\ amtOut' = AmountDone(v)
    /\ UNCHANGED <<sessionVars, serverVars, cache, loadVars, fetchVars, calls,
                   tokVars, pgServer, pgCall, amtRow, rawRows, frame, tmp, dre, runVars>>

BankRow == NormaliseRow("bank", pick_amount(amtRow.d))
BorderoRow == NormaliseRow("bord", pick_amount_bordero(amtRow.d))
ReceberRow == NormaliseRow("receber", entrada_valor(amtRow.d))
PagarRow == NormaliseRow("pagar", saida_valor(amtRow.d))

AmountInit ==
    /\ LoadInit
    /\ ts_refresh = 1
    /\ cache = [fn \in Fns |-> {}]
    /\ tokServer = <<>>
    /\ tokCall = NoTokenCall
    /\ pgServer = [fn |-> "none"]
    /\ pgCall = [phase |-> "none"]
    /\ amtRow \in [fam : {"bank"}, d : BankRows]
                    \cup [fam : {"bord"}, d : BorderoRows]
                    \cup [fam : {"receber", "pagar"}, d : RpRows]
    /\ amtOut = [phase |-> "none"]
    /\ rawRows = [fn |-> "none"]
    /\ frame = [phase |-> "none"]
    /\ tmp = <<>>
    /\ dre = [phase |-> "none"]

AmountNext == BankRow \/ BorderoRow \/ ReceberRow \/ PagarRow

SpecAmount == AmountInit /\ [][AmountNext]_vars

----------------------------------------------------------------------------
\* CLAIMS ABOUT THE NORMALISATION (under SpecAmount)

AmtDone == amtOut.phase = "done"

Fields(d) == { d[k] : k \in DOMAIN d }

\* Every amount field of the row is absent or a number.
PlainNumbers(d) == \A x \in Fields(d) : x.t \in {"none", "num", "str", "text"}

\* The row has a credit or a debit field.
HasCreditDebit(d) ==
    \/ d.valorCredito # None \/ d.credito # None
    \/ d.valorDebito # None \/ d.debito # None

\* C19 as claimed: for a bank-extract row of plain numbers, pick_amount
\* returns credit - debit whenever the row has a credit or debit field;
\* otherwise it takes the single amount field v and returns -|v| when the
\* upper-cased type/nature marker indicates debit/outflow, +|v| when it
\* indicates credit/inflow, and v when no marker matches.
C19_SignedAmount ==
    (AmtDone /\ amtRow.fam = "bank" /\ PlainNumbers(amtRow.d)) =>
        LET d == amtRow.d
            c == FloatOrZero(Or(Or(d.valorCredito, d.credito), Num(0)))
            b == FloatOrZero(Or(Or(d.valorDebito, d.debito), Num(0)))
            valor == Or(Or(d.valorLancamento, d.valorAbsoluto), d.valor)
            v == FloatOrZero(valor)
            tipo == TipoOf(d)
        IN
        IF HasCreditDebit(d) THEN amtOut.valor = Sub(c, b)
        ELSE IF valor = None THEN amtOut.valor = Num(0)
        ELSE IF IsDebitMarker(tipo) /\ ~IsCreditMarker(tipo) THEN amtOut.valor = Neg(Abs(v))
        ELSE IF IsCreditMarker(tipo) /\ ~IsDebitMarker(tipo) THEN amtOut.valor = Abs(v)
        ELSE IF IsDebitMarker(tipo) THEN amtOut.valor \in {Neg(Abs(v)), Abs(v)}
        ELSE amtOut.valor = v

\* C20 as claimed: a row from the pagar endpoint gets an amount <= 0 and a
\* row from the receber endpoint an amount >= 0, whatever the sign of the
\* number the vendor sent.
C20_SignBySource ==
    (AmtDone /\ amtOut.valor.t = "num") =>
        /\ amtRow.fam = "pagar" => amtOut.valor.v <= 0
        /\ amtRow.fam = "receber" => amtOut.valor.v >= 0

\* The amount fields of a raw row of each family.
AmountFields(fam) ==
    CASE fam = "bank" -> {"valorCredito", "credito", "valorDebito", "debito",
                          "valorLancamento", "valorAbsoluto", "valor"}
      [] fam = "bord" -> {"valorLiquido", "valorTotal", "valor"}
      [] fam \in {"receber", "pagar"} -> {"valorPago", "valor"}

\* The row carries an amount, and no amount field of it parses as a number.
UnparseableAmount(r) ==
    /\ \A k \in AmountFields(r.fam) : r.d[k] \in {None, Junk}
    /\ \E k \in AmountFields(r.fam) : r.d[k] = Junk

\* C21 as claimed: in each financial family (bank extracts, borderos,
\* receber, pagar) a row whose amount cannot be parsed as a number gets the
\* amount exactly 0, not a not-a-number marker.
C21_UnparseableBecomesZero ==
    (AmtDone /\ UnparseableAmount(amtRow)) => amtOut.valor = Num(0)

----------------------------------------------------------------------------
\* FRAME CONSTRUCTION: the dates of the rows a function returns

MaxFrameRows == 2

\* A date string that parses, and pandas' not-a-time.
Date(n) == [t |-> "date", v |-> n]
NaT == [t |-> "nat"]

\* pd.to_datetime(x, errors="coerce")
to_datetime(x) == IF x.t = "date" THEN x ELSE NaT

\* fetch_orders: "data": g(x, "data")
order_date(d) == d.data

\* fetch_bank_confirmed.pick_date
pick_date(d) ==
    Or(Or(Or(Or(Or(d.data, d.dataMovimento), d.dataLancamento), d.dataBaixa),
          d.dataCredito), d.dataDebito)

\* fetch_bordero_confirmed.pick_date
pick_date_bordero(d) == Or(Or(Or(d.data, d.dataCriacao), d.dataLiquidacao), d.dataBaixa)

\* fetch_cashflow_fallback.pick_payment_date
pick_payment_date(d) == Or(Or(Or(d.dataPagamento, d.dataBaixa), d.dataVencimento), d.data)

\* A row of a frame: the raw row it was built from (side, position) and its date.
FrameRow(side, i, dt) == [side |-> side, i |-> i, data |-> dt]

\* df["data"] = pd.to_datetime(df["data"], errors="coerce")
DatesParsed(df) == [i \in 1..Len(df) |-> [df[i] EXCEPT !.data = to_datetime(@)]]

\* df.dropna(subset=["data"])
dropna(df) == SelectSeq(df, LAMBDA r : r.data # NaT)

Returns(df) == [phase |-> "done", ok |-> TRUE, rows |-> df, err |-> NoErr]
Raises(err) == [phase |-> "done", ok |-> FALSE, rows |-> <<>>, err |-> err]

\* fetch_orders, from recs on: the dates are parsed, no row is dropped
orders_frame(rs) ==
    LET df == [i \in 1..Len(rs) |-> FrameRow("orders", i, order_date(rs[i]))] IN
    Returns(IF df # <<>> THEN DatesParsed(df) ELSE df)

\* fetch_bank_confirmed, from df = pd.DataFrame([...]) on
bank_frame(rs) ==
    LET df == [i \in 1..Len(rs) |-> FrameRow("bank", i, pick_date(rs[i]))] IN
    Returns(IF df # <<>> THEN dropna(DatesParsed(df)) ELSE df)

\* fetch_bordero_confirmed, from df = pd.DataFrame([...]) on
bordero_frame(rs) ==
    LET df == [i \in 1..Len(rs) |-> FrameRow("bord", i, pick_date_bordero(rs[i]))] IN
    Returns(IF df # <<>> THEN dropna(DatesParsed(df)) ELSE df)

\* fetch_cashflow_fallback, from entradas = pd.DataFrame([...]) on
cashflow_frame(es, ss) ==
    LET entradas == [i \in 1..Len(es) |-> FrameRow("receber", i, pick_payment_date(es[i]))]
        saidas   == [i \in 1..Len(ss) |-> FrameRow("pagar", i, pick_payment_date(ss[i]))]
        e2 == IF entradas # <<>> THEN DatesParsed(entradas) ELSE entradas
        s2 == IF saidas # <<>> THEN DatesParsed(saidas) ELSE saidas
    IN  IF DropnaRaises(entradas, saidas)
            THEN Raises(KeyErrorData)
            ELSE Returns(dropna(e2 \o s2))

\* Date values the vendor may send: absent or null, a date, a string that is
\* no date; and a second date field that is absent or a date.
DateVals == {None, Date(1), Junk}
AltDateVals == {None, Date(2)}

OrderRawRows == [data : DateVals]
BankRawRows ==
    [data : DateVals, dataMovimento : AltDateVals, dataLancamento : {None},
     dataBaixa : {None}, dataCredito : {None}, dataDebito : {None}]
BorderoRawRows ==
    [data : DateVals, dataCriacao : AltDateVals, dataLiquidacao : {None},
     dataBaixa : {None}]
RpRawRows ==
    [dataPagamento : DateVals, dataBaixa : {None}, dataVencimento : AltDateVals,
     data : {None}]

SeqsUpTo(S, n) == UNION { [1..k -> S] : k \in 0..n }

\* The function fn builds its frame from rawRows
BuildFrame(fn, out) ==
    /\ rawRows.fn = fn
    /\ frame.phase = "none"
    /\ frame' = out
    /\ UNCHANGED <<sessionVars, serverVars, cache, loadVars, fetchVars, calls,
                   tokVars, pgServer, pgCall, amtRow, amtOut, rawRows, tmp, dre, runVars>>

OrdersFrame == BuildFrame("orders", orders_frame(rawRows.rows))
BankFrame == BuildFrame("bank", bank_frame(rawRows.rows))
BorderoFrame == BuildFrame("bord", bordero_frame(rawRows.rows))
CashflowFrame == BuildFrame("rp", cashflow_frame(rawRows.rows, rawRows.saidas))

FrameInit ==
    /\ LoadInit
    /\ ts_refresh = 1
    /\ cache = [fn \in Fns |-> {}]
    /\ tokServer = <<>>
    /\ tokCall = NoTokenCall
    /\ pgServer = [fn |-> "none"]
    /\ pgCall = [phase |-> "none"]
    /\ amtRow = [fam |-> "none"]
    /\ amtOut = [phase |-> "none"]
    /\ rawRows \in [fn : {"orders"}, rows : SeqsUpTo(OrderRawRows, MaxFrameRows)]
                \cup [fn : {"bank"}, rows : SeqsUpTo(BankRawRows, MaxFrameRows)]
                \cup [fn : {"bord"}, rows : SeqsUpTo(BorderoRawRows, MaxFrameRows)]
                \cup [fn : {"rp"}, rows : SeqsUpTo(RpRawRows, MaxFrameRows),
                       saidas : SeqsUpTo(RpRawRows, MaxFrameRows)]
    /\ frame = [phase |-> "none"]
    /\ tmp = <<>>
    /\ dre = [phase |-> "none"]

FrameNext == OrdersFrame \/ BankFrame \/ BorderoFrame \/ CashflowFrame

SpecFrame == FrameInit /\ [][FrameNext]_vars

----------------------------------------------------------------------------
\* CLAIMS ABOUT THE FRAMES (under SpecFrame)

FrameDone == frame.phase = "done"

\* The date the function reads from a raw row.
RawDate(fn, d) ==
    CASE fn = "orders" -> order_date(d)
      [] fn = "bank"   -> pick_date(d)
      [] fn = "bord"   -> pick_date_bordero(d)
      [] fn = "rp"     -> pick_payment_date(d)

\* The raw rows of the input, each with its side and position.
RawOf(side) == IF side = "pagar" THEN rawRows.saidas ELSE rawRows.rows
Sides == IF rawRows.fn = "rp" THEN {"receber", "pagar"} ELSE {rawRows.fn}
Appears(side, i) == \E j \in 1..Len(frame.rows) :
                        frame.rows[j].side = side /\ frame.rows[j].i = i

\* C22 as claimed: in the frame that each function returns (the three ledger
\* families and the orders table), a raw row appears exactly when its date is
\* present and parses: a row whose date is missing or unparseable is absent,
\* every other row is present.
C22_BadDatesDropped ==
    (FrameDone /\ frame.ok) =>
        \A side \in Sides : \A i \in 1..Len(RawOf(side)) :
            Appears(side, i) <=> RawDate(rawRows.fn, RawOf(side)[i]).t = "date"

----------------------------------------------------------------------------
\* THE OAUTH TAB AND THE GATE: the code exchanges of one session, automatic
\* and manual, up to the token call of the first fetch of a load

MaxCode == 2
MaxExchanges == 3

\* st.session_state["ts_refresh"] = tokens.get("refresh_token") and its
\* sibling: the assignments follow the call inside the try block
ExchangeStoredAlways(cur, res, new) == new
ExchangeStored(cur, res, new) == IF res.ok THEN new ELSE cur

\* _last_code_used = code; try: tokens = exchange_code_for_tokens(code); ...
\* The automatic path clears the query parameters in its finally block, the
\* manual path after a successful exchange only.
Exchange(code, path, server) ==
    LET res == exchange_code_for_tokens(server) IN
    /\ last_code_used' = code
    /\ exchanged' = Append(exchanged, [code |-> code, path |-> path, ok |-> res.ok])
    /\ ts_refresh' = ExchangeStored(ts_refresh, res, res.refresh)
    /\ ts_access' = ExchangeStored(ts_access, res, res.access)
    /\ lastIssued' = IF res.ok /\ res.refresh # 0 THEN res.refresh ELSE lastIssued
    /\ query_params' = IF path = "auto" \/ res.ok THEN NoQuery ELSE query_params
    /\ UNCHANGED fin_source_detail

\* captured = auto_capture_code(); if captured: ...; st.rerun()
AutoCapture ==
    /\ AboveDashboard
    /\ CaptureApplies
    /\ Len(exchanged) < MaxExchanges
    /\ \E server \in TokenServers : Exchange(query_params.code, "auto", server)
    /\ UNCHANGED <<lastGrant, cache, loadVars, fetchVars, calls, tokVars, unitVars, runVars>>

\* What the user may have typed into "manual_auth_input": nothing, a bare
\* code, or a return URL with its code and state (0, "none": without).
ManualInputs ==
    {[kind |-> "empty", code |-> 0, state |-> "none"]}
        \cup [kind : {"code"}, code : 1..MaxCode, state : {"none"}]
        \cup [kind : {"url"}, code : 0..MaxCode, state : {"auth-ts", "other", "none"}]

\* code_value of the manual block
CodeValue(manual) ==
    CASE manual.kind = "empty" -> 0
      [] manual.kind = "code"  -> manual.code
      [] manual.kind = "url"   ->
            IF manual.state # "none" /\ manual.state # "auth-ts" THEN 0 ELSE manual.code

\* if st.button("Trocar agora", key="btn_manual_exchange")
ManualExchange ==
    /\ AboveDashboard
    /\ ~CaptureApplies
    /\ \E manual \in ManualInputs :
        LET code_value == CodeValue(manual) IN
        IF code_value # 0 /\ code_value # last_code_used
            THEN /\ Len(exchanged) < MaxExchanges
                 /\ \E server \in TokenServers : Exchange(code_value, "manual", server)
            ELSE UNCHANGED <<sessionVars, lastIssued>>
    /\ UNCHANGED <<lastGrant, cache, loadVars, fetchVars, calls, tokVars, unitVars, runVars>>

\* The URL the session was opened with: without a code, or the vendor's
\* redirect with a code and a state.
Queries == {NoQuery} \cup [code : 1..MaxCode, state : {"auth-ts", "other"}]

SessionInit ==
    /\ BaseInit
    /\ last_code_used = 0
    /\ query_params \in Queries
    /\ exchanged = <<>>
    /\ tokServer = <<>>
    /\ tokCall = NoTokenCall
    /\ NoUnit

SessionNext ==
    \/ AutoCapture
    \/ ManualExchange
    \/ StartLoad
    \/ OrdersCached
    \/ OrdersRefresh

SpecSession == SessionInit /\ [][SessionNext]_vars

----------------------------------------------------------------------------
\* CLAIMS ABOUT THE SESSION (under SpecSession)

\* C23 as claimed: a fetch sends a refresh_token grant to the token endpoint
\* only when the session holds no access token; while the session holds one,
\* obtained earlier in the session, no fetch sends a refresh grant.
C23_RefreshOnlyWithoutAccess == [][grants' > grants => ts_access = 0]_vars

\* C29 as claimed: no authorization code is sent to the token endpoint in
\* more than one exchange_code_for_tokens call of the session.
C29_CodeExchangedOnce ==
    \A i, j \in 1..Len(exchanged) : i # j => exchanged[i].code # exchanged[j].code

\* C30: a step in which a code exchange fails (429 on all attempts, or a
\* status other than 200), in the automatic and in the manual path, leaves
\* the session's refresh token and access token as they were.
C30_FailedExchangeKeepsTokens ==
    [][(/\ Len(exchanged') = Len(exchanged) + 1
        /\ ~exchanged'[Len(exchanged')].ok)
       => /\ ts_refresh' = ts_refresh
          /\ ts_access' = ts_access]_vars

C30_Witness ==
    /\ Len(exchanged) = 3
    /\ exchanged[1].path = "auto" /\ ~exchanged[1].ok
    /\ exchanged[2].path = "manual" /\ exchanged[2].ok
    /\ exchanged[3].path = "manual" /\ ~exchanged[3].ok
    /\ ts_refresh # 0
    /\ ts_access # 0

----------------------------------------------------------------------------
\* THE MONTHLY SUMMARY (DRE), against every small ledger of integer amounts

MaxLedgerRows == 3
MaxMes == 2
MaxValor == 2

\* Series.sum()
RECURSIVE SeriesSum(_)
SeriesSum(xs) == IF xs = <<>> THEN 0 ELSE Head(xs) + SeriesSum(Tail(xs))

\* pd.to_datetime(...).dt.to_period("M").dt.to_timestamp(): the first day of
\* the date's month
to_month(d) == [mes |-> d.mes, dia |-> 1]

\* tmp["mes"] = ...
WithMes(df) ==
    [i \in 1..Len(df) |->
        [data |-> df[i].data, valor |-> df[i].valor, mes |-> to_month(df[i].data)]]

\* df["valor"]
Valores(df) == [i \in 1..Len(df) |-> df[i].valor]

\* tmp[tmp["valor"] > 0] and tmp[tmp["valor"] < 0]
Positive(df) == SelectSeq(df, LAMBDA r : r.valor > 0)
Negative(df) == SelectSeq(df, LAMBDA r : r.valor < 0)

\* .groupby("mes", as_index=False)["valor"].sum(): one sum per month present
groupby_sum(df) ==
    [m \in {df[i].mes : i \in 1..Len(df)} |->
        SeriesSum(Valores(SelectSeq(df, LAMBDA r : r.mes = m)))]

\* how="outer" orders the merged rows by key
RECURSIVE SortedKeys(_)
SortedKeys(S) ==
    IF S = {} THEN <<>>
    ELSE LET m == CHOOSE x \in S : \A y \in S : x.mes <= y.mes
         IN  <<m>> \o SortedKeys(S \ {m})

\* .fillna(0.0) of a month one side of the merge does not have
fillna(col, m) == IF m \in DOMAIN col THEN col[m] ELSE 0

\* pd.merge(receitas, despesas, on="mes", how="outer").fillna(0.0)
merge_outer(receitas, despesas) ==
    LET keys == SortedKeys(DOMAIN receitas \cup DOMAIN despesas) IN
    [k \in 1..Len(keys) |->
        [mes |-> keys[k],
         entradas |-> fillna(receitas, keys[k]),
         despesas |-> fillna(despesas, keys[k])]]

\* .clip(lower=lo)
clip_lower(x, lo) == IF x < lo THEN lo ELSE x

\* dre["pagos"] = (-dre["despesas"]).clip(lower=0)
PagosKeepSign(despesas) == despesas
Pagos(despesas) == clip_lower(0 - despesas, 0)

\* The table of the DRE block and the totals of the period
dre_mensal(df) ==
    LET merged == merge_outer(groupby_sum(Positive(df)), groupby_sum(Negative(df)))
        row(k) == [mes |-> merged[k].mes,
                   entradas |-> merged[k].entradas,
                   pagos |-> Pagos(merged[k].despesas)]
        diferenca(k) == row(k).entradas - row(k).pagos
        table == [k \in 1..Len(merged) |->
                    [mes |-> row(k).mes,
                     entradas |-> row(k).entradas,
                     pagos |-> row(k).pagos,
                     diferenca |-> diferenca(k),
                     acumulado |-> SeriesSum([j \in 1..k |-> diferenca(j)])]]
        total_recebido == SeriesSum([k \in 1..Len(table) |-> table[k].entradas])
        total_pago == SeriesSum([k \in 1..Len(table) |-> table[k].pagos])
    IN  [phase |-> "done", rows |-> table,
         total_recebido |-> total_recebido,
         total_pago |-> total_pago,
         diff |-> total_recebido - total_pago]

\* if df_mov.empty: st.info("Nenhum lancamento financeiro no periodo.")
\* else: the summary is built and shown
DreMensal ==
    /\ dre.phase = "none"
    /\ dre' = IF tmp = <<>> THEN [phase |-> "info"] ELSE dre_mensal(WithMes(tmp))
    /\ UNCHANGED <<sessionVars, serverVars, cache, loadVars, fetchVars, calls,
                   tokVars, pgServer, pgCall, amtRow, amtOut, rawRows, frame, tmp,
                   runVars>>

\* Ledger rows as the families build them: a date and a signed amount.
DiaVals == {1, 15}
LedgerRows ==
    [data : [mes : 1..MaxMes, dia : DiaVals], valor : (0 - MaxValor)..MaxValor]

DreInit ==
    /\ LoadInit
    /\ ts_refresh = 1
    /\ cache = [fn \in Fns |-> {}]
    /\ tokServer = <<>>
    /\ tokCall = NoTokenCall
    /\ pgServer = [fn |-> "none"]
    /\ pgCall = [phase |-> "none"]
    /\ amtRow = [fam |-> "none"]
    /\ amtOut = [phase |-> "none"]
    /\ rawRows = [fn |-> "none"]
    /\ frame = [phase |-> "none"]
    /\ tmp \in SeqsUpTo(LedgerRows, MaxLedgerRows)
    /\ dre = [phase |-> "none"]

DreNext == DreMensal

SpecDre == DreInit /\ [][DreNext]_vars

----------------------------------------------------------------------------
\* CLAIMS ABOUT THE MONTHLY SUMMARY (under SpecDre)

DreDone == dre.phase = "done"

\* C32: for every non-empty ledger with integer amounts, every month of the
\* summary has entradas >= 0, pagos >= 0 and diferenca = entradas - pagos,
\* and the result of the period (total received minus total paid) is the sum
\* of all signed amounts of the ledger.
C32_MonthlySummary ==
    DreDone =>
        /\ \A k \in 1..Len(dre.rows) :
               /\ dre.rows[k].entradas >= 0
               /\ dre.rows[k].pagos >= 0
               /\ dre.rows[k].diferenca = dre.rows[k].entradas - dre.rows[k].pagos
        /\ dre.diff = SeriesSum(Valores(tmp))

C32_Witness ==
    /\ DreDone
    /\ Len(tmp) = 3
    /\ Len(dre.rows) = 2
    /\ dre.rows[1].entradas = 0 /\ dre.rows[1].pagos = MaxValor
    /\ dre.rows[2].entradas = 1 /\ dre.rows[2].pagos = 1
    /\ dre.diff = 0 - MaxValor

====
